---- MODULE Spec2Model ----
(***************************************************************************)
(* Model of plot_dr_over_ifpr.py: the straight-line pipeline that reads    *)
(* ./results/dr_over_ifpr.json, rounds the thresholds, plots one marker    *)
(* and one annotation per (threshold, window size) pair, builds the        *)
(* legend and saves ./plots/dr_over_ifpr.pdf.                              *)
(*                                                                         *)
(* Numbers: a threshold is kept in hundredths (0.5 is 50), so that         *)
(* np.around(., decimals=1) is a real rounding; ifp_rate and det_ratio are *)
(* opaque integers; window sizes are integers.  A color is the index into  *)
(* the property cycle that matplotlib resolves the string 'C<i>' to.       *)
(***************************************************************************)
EXTENDS Integers, Sequences, FiniteSets, TLC

VARIABLES input, plotsDir, pdf, run, pc, error, stdout,
          dataframe, thresholds, window_sizes, i, artists, legend

vars == <<input, plotsDir, pdf, run, pc, error, stdout,
          dataframe, thresholds, window_sizes, i, artists, legend>>

-----------------------------------------------------------------------------
(* Bounds of the model *)

\* longest enumerated input table (rows in arbitrary order and combination)
MaxRows == 4

\* most thresholds of the one-window-size tables (one row per threshold)
MaxSeries == 31

\* number of times the script is run in sequence on the same input
MaxRuns == 2

-----------------------------------------------------------------------------
(* Pure helpers *)

Min(S) == CHOOSE m \in S : \A n \in S : m <= n

RECURSIVE SortSet(_)
\* sorted(values): the ascending sequence of the members of a set
SortSet(S) ==
    IF S = {} THEN <<>> ELSE <<Min(S)>> \o SortSet(S \ {Min(S)})

\* np.unique(column): the set of distinct values of a sequence
Unique(column) == {column[k] : k \in DOMAIN column}

\* the ascending sequence of distinct values of a column
SortedUnique(column) == SortSet(Unique(column))

\* a mutant of Round1: "round up" written as floor plus one step
Round1Up(t) == 10 * ((t \div 10) + 1)

\* np.around(t, decimals=1) on hundredths: to the nearest tenth, a tie to the
\* even tenth
Round1(t) ==
    LET q == t \div 10
        r == t % 10
    IN  IF r < 5 THEN 10 * q
        ELSE IF r > 5 THEN 10 * (q + 1)
        ELSE IF q % 2 = 0 THEN 10 * q ELSE 10 * (q + 1)

Digit(d) ==
    CASE d = 0 -> "0" [] d = 1 -> "1" [] d = 2 -> "2" [] d = 3 -> "3"
      [] d = 4 -> "4" [] d = 5 -> "5" [] d = 6 -> "6" [] d = 7 -> "7"
      [] d = 8 -> "8" [] d = 9 -> "9"

RECURSIVE IntStr(_)
\* '{}'.format(n) for a natural number
IntStr(n) == IF n < 10 THEN Digit(n) ELSE IntStr(n \div 10) \o Digit(n % 10)

\* str(float) of a value given in hundredths: "0.5", "1.0", "0.45"
FloatStr(t) ==
    IntStr(t \div 100) \o "." \o Digit((t \div 10) % 10)
        \o (IF t % 10 = 0 THEN "" ELSE Digit(t % 10))

-----------------------------------------------------------------------------
(* The input file ./results/dr_over_ifpr.json *)

\* raw threshold values (hundredths) of the enumerated tables: 0.49 and 0.51,
\* floating-point noise around 0.5, and 0.9
RawThresholds == {49, 51, 90}

WindowSizes == {10, 100}

\* ifp_rate and det_ratio of the row at position k: every row of a table has
\* coordinates of its own, so that the row a point was taken from is visible
IfpRate(k) == 3 + k

DetRatio(k) == 820 + 4 * k

Record(th, ws, k) ==
    [threshold |-> th, window_size |-> ws,
     ifp_rate |-> IfpRate(k), det_ratio |-> DetRatio(k)]

\* every table of 1..MaxRows rows over RawThresholds x WindowSizes, in every
\* order, duplicates and missing combinations included
SmallTables ==
    UNION {[1..n -> RawThresholds \X WindowSizes] : n \in 1..MaxRows}

\* the threshold of series s of a one-window-size table, with noise in the
\* second decimal, ties of the rounding included: 0.11, 0.25, 0.29, 0.35, ...
SeriesThreshold(s) ==
    10 * s + (CASE s % 4 = 1 -> 1 [] s % 4 = 2 -> 5 [] s % 4 = 3 -> -1 [] OTHER -> -5)

\* n thresholds, one row each, written in descending order of threshold
WideTables ==
    {[k \in 1..n |-> <<SeriesThreshold(n + 1 - k), 10>>] : n \in 1..MaxSeries}

Table(keys) == [k \in DOMAIN keys |-> Record(keys[k][1], keys[k][2], k)]

\* the file is missing or malformed (ok = FALSE), or holds a table
Inputs ==
    {[ok |-> FALSE, rows |-> <<>>]}
        \cup {[ok |-> TRUE, rows |-> Table(keys)] : keys \in SmallTables \cup WideTables}

-----------------------------------------------------------------------------
(* Operators of the script *)

Column(frame, name) == [k \in DOMAIN frame |-> frame[k][name]]

\* a mutant of LoadFrame: the rounding of the threshold column is left out
LoadFrameRaw(rows) == rows

\* the dataframe after the type fixes and the rounding of the thresholds
LoadFrame(rows) ==
    [k \in DOMAIN rows |-> [rows[k] EXCEPT !.threshold = Round1(@)]]

\* a mutant of IndexValues: the distinct values in descending order
IndexValuesDesc(column) ==
    LET s == SortedUnique(column)
    IN  [k \in 1..Len(s) |-> s[Len(s) + 1 - k]]

\* sorted(np.unique(column.values))
IndexValues(column) == SortedUnique(column)

markers_ == <<"o", "v", "P", "s", "D", "x">>

\* a mutant of markers: the modulus is one short of the list
markersShort(index) == markers_[(index % (Len(markers_) - 1)) + 1]

\* markers(index): cyclic over the six marker shapes
markers(index) == markers_[(index % Len(markers_)) + 1]

\* number of colors of matplotlib's default property cycle
PaletteSize == 10

\* a mutant of CycleColor: the color cycles with the markers
CycleColorByMarkers(index) == index % Len(markers_)

\* the palette entry the color string f'C{i}' is resolved to
CycleColor(index) == index % PaletteSize

\* a mutant of FirstValue: the last matching row is taken
LastValue(datapoint, name) == datapoint[Len(datapoint)][name]

\* datapoint[name].values[0]; only called on a non-empty selection
FirstValue(datapoint, name) == datapoint[1][name]

\* dataframe[dataframe['threshold'] == threshold]
Line(frame, threshold) == SelectSeq(frame, LAMBDA r : r.threshold = threshold)

\* line.loc[line['window_size'] == window_size]
Datapoint(line, window_size) ==
    SelectSeq(line, LAMBDA r : r.window_size = window_size)

\* a mutant of SelectPoints: a window size without a row is skipped
SelectPointsSkip(line, wss) ==
    LET found == SelectSeq(wss, LAMBDA w : Datapoint(line, w) # <<>>)
    IN  [ok |-> TRUE,
         X |-> [k \in 1..Len(found) |-> FirstValue(Datapoint(line, found[k]), "ifp_rate")],
         Y |-> [k \in 1..Len(found) |-> FirstValue(Datapoint(line, found[k]), "det_ratio")]]

\* the inner loop over the window sizes: X and Y of one line, or the
\* IndexError of .values[0] on an empty selection
SelectPoints(line, wss) ==
    IF \E k \in 1..Len(wss) : Datapoint(line, wss[k]) = <<>>
    THEN [ok |-> FALSE, X |-> <<>>, Y |-> <<>>]
    ELSE [ok |-> TRUE,
          X |-> [k \in 1..Len(wss) |-> FirstValue(Datapoint(line, wss[k]), "ifp_rate")],
          Y |-> [k \in 1..Len(wss) |-> FirstValue(Datapoint(line, wss[k]), "det_ratio")]]

\* ax.plot(x, y, color=f'C{i}', marker=markers(i), ...)
PlotArtist(index, x, y) ==
    [kind |-> "point", x |-> x, y |-> y,
     color |-> CycleColor(index), marker |-> markers(index), text |-> ""]

\* ax.annotate('{}'.format(window_size), xy=(x, y), ..., color=f'C{i}')
AnnotateArtist(index, x, y, window_size) ==
    [kind |-> "text", x |-> x, y |-> y,
     color |-> CycleColor(index), marker |-> "", text |-> IntStr(window_size)]

\* number of triples zip(X, Y, window_sizes) yields
ZipLen(X, Y, wss) == Min({Len(X), Len(Y), Len(wss)})

\* a mutant of DrawSeries: the last point of the line is not drawn
DrawSeriesShort(index, X, Y, wss) ==
    [k \in 1..2 * (ZipLen(X, Y, wss) - 1) |->
        IF k % 2 = 1
        THEN PlotArtist(index, X[(k + 1) \div 2], Y[(k + 1) \div 2])
        ELSE AnnotateArtist(index, X[k \div 2], Y[k \div 2], wss[k \div 2])]

\* the loop over zip(X, Y, window_sizes): a point and its annotation per triple
DrawSeries(index, X, Y, wss) ==
    [k \in 1..2 * ZipLen(X, Y, wss) |->
        IF k % 2 = 1
        THEN PlotArtist(index, X[(k + 1) \div 2], Y[(k + 1) \div 2])
        ELSE AnnotateArtist(index, X[k \div 2], Y[k \div 2], wss[k \div 2])]

\* a mutant of LegendElements: enumerate counts from 1
LegendElementsShifted(ths) ==
    [k \in 1..Len(ths) |->
        [label |-> "Threshold " \o FloatStr(ths[k]),
         color |-> CycleColor(k), marker |-> markers(k)]]

\* the Line2D handles of the legend, one per enumerate(thresholds)
LegendElements(ths) ==
    [k \in 1..Len(ths) |->
        [label |-> "Threshold " \o FloatStr(ths[k]),
         color |-> CycleColor(k - 1), marker |-> markers(k - 1)]]

\* a mutant of Mkdir: exist_ok is not honoured
MkdirStrict(exists, exist_ok) ==
    IF exists THEN [ok |-> FALSE, exists |-> TRUE]
    ELSE [ok |-> TRUE, exists |-> TRUE]

\* Path(plots_dir).mkdir(exist_ok=...): FileExistsError on an existing
\* directory unless exist_ok
Mkdir(exists, exist_ok) ==
    IF exists /\ ~exist_ok THEN [ok |-> FALSE, exists |-> TRUE]
    ELSE [ok |-> TRUE, exists |-> TRUE]

\* the narration on standard output
ReadingMsg == "Reading in data..."

CreatingMsg == "Creating plot..."

SavingMsg == "Saving plot as PDF..."

DoneMsg == "Done!"

\* the elapsed-time report, without the time
TookMsg == "This took"

\* a mutant of Advance: the exception is swallowed and the script goes on
AdvanceAlways(ok, next) == next

\* where control goes after a statement: an exception is not caught anywhere,
\* so it ends the script
Advance(ok, next) == IF ok THEN next ELSE "failed"

-----------------------------------------------------------------------------
(* The script, one action per stage *)

\* the state of a process that has just started: nothing read, nothing drawn
Init ==
    /\ input \in Inputs
    /\ plotsDir \in BOOLEAN
    /\ pdf = 0
    /\ run = 1
    /\ pc = "load"
    /\ error = "none"
    /\ stdout = <<>>
    /\ dataframe = <<>>
    /\ thresholds = <<>>
    /\ window_sizes = <<>>
    /\ i = 0
    /\ artists = <<>>
    /\ legend = <<>>

\* lines 41-50: read the file, fix the types, round the thresholds
Load ==
    /\ pc = "load"
    /\ pc' = Advance(input.ok, "index")
    /\ error' = IF input.ok THEN error ELSE "ValueError"
    /\ dataframe' = IF input.ok THEN LoadFrame(input.rows) ELSE dataframe
    /\ stdout' = stdout \o <<ReadingMsg>>
                    \o (IF input.ok THEN <<DoneMsg>> ELSE <<>>)
    /\ UNCHANGED <<input, plotsDir, pdf, run, thresholds, window_sizes, i,
                   artists, legend>>

\* lines 53-69: the distinct thresholds and window sizes, the empty figure
Index ==
    /\ pc = "index"
    /\ thresholds' = IndexValues(Column(dataframe, "threshold"))
    /\ window_sizes' = IndexValues(Column(dataframe, "window_size"))
    /\ i' = 0
    /\ artists' = <<>>
    /\ stdout' = stdout \o <<CreatingMsg>>
    /\ pc' = "plot"
    /\ UNCHANGED <<input, plotsDir, pdf, run, error, dataframe, legend>>

\* lines 70-89: one pass of the loop over enumerate(thresholds)
PlotThreshold ==
    /\ pc = "plot"
    /\ i < Len(thresholds)
    /\ LET line == Line(dataframe, thresholds[i + 1])
           sel  == SelectPoints(line, window_sizes)
       IN  /\ pc' = Advance(sel.ok, "plot")
           /\ error' = IF sel.ok THEN error ELSE "IndexError"
           /\ artists' = IF sel.ok
                         THEN artists \o DrawSeries(i, sel.X, sel.Y, window_sizes)
                         ELSE artists
           /\ i' = IF sel.ok THEN i + 1 ELSE i
    /\ UNCHANGED <<input, plotsDir, pdf, run, stdout, dataframe, thresholds,
                   window_sizes, legend>>

\* line 90: the loop is over
PlotDone ==
    /\ pc = "plot"
    /\ i >= Len(thresholds)
    /\ stdout' = stdout \o <<DoneMsg>>
    /\ pc' = "style"
    /\ UNCHANGED <<input, plotsDir, pdf, run, error, dataframe, thresholds,
                   window_sizes, i, artists, legend>>

\* lines 96-125: limits, scales, labels, grid, legend, size
Style ==
    /\ pc = "style"
    /\ legend' = LegendElements(thresholds)
    /\ pc' = "mkdir"
    /\ UNCHANGED <<input, plotsDir, pdf, run, error, stdout, dataframe,
                   thresholds, window_sizes, i, artists>>

\* lines 128-130: the directory of the plot
MakeDir ==
    /\ pc = "mkdir"
    /\ LET made == Mkdir(plotsDir, TRUE)
       IN  /\ plotsDir' = made.exists
           /\ pc' = Advance(made.ok, "save")
           /\ error' = IF made.ok THEN error ELSE "FileExistsError"
    /\ UNCHANGED <<input, pdf, run, stdout, dataframe, thresholds,
                   window_sizes, i, artists, legend>>

\* lines 133-143: write the PDF (created or overwritten) and report
SaveFig ==
    /\ pc = "save"
    /\ pdf' = run
    /\ stdout' = stdout \o <<SavingMsg, DoneMsg, TookMsg>>
    /\ pc' = "done"
    /\ UNCHANGED <<input, plotsDir, run, error, dataframe, thresholds,
                   window_sizes, i, artists, legend>>

\* the script is started again on the same file: a new process, the same
\* file system
Rerun ==
    /\ pc \in {"done", "failed"}
    /\ run < MaxRuns
    /\ run' = run + 1
    /\ pc' = "load"
    /\ error' = "none"
    /\ stdout' = <<>>
    /\ dataframe' = <<>>
    /\ thresholds' = <<>>
    /\ window_sizes' = <<>>
    /\ i' = 0
    /\ artists' = <<>>
    /\ legend' = <<>>
    /\ UNCHANGED <<input, plotsDir, pdf>>

Next ==
    \/ Load
    \/ Index
    \/ PlotThreshold
    \/ PlotDone
    \/ Style
    \/ MakeDir
    \/ SaveFig
    \/ Rerun

Spec == Init /\ [][Next]_vars

-----------------------------------------------------------------------------
(* What the input file says, computed from the file alone *)

Rows == input.rows

\* the rounded threshold and the window size of row k of the file
GroupOf(k) == Round1(Rows[k].threshold)

WindowOf(k) == Rows[k].window_size

Groups == {GroupOf(k) : k \in DOMAIN Rows}

Windows == {WindowOf(k) : k \in DOMAIN Rows}

RowsOf(t, w) == {k \in DOMAIN Rows : GroupOf(k) = t /\ WindowOf(k) = w}

\* every (threshold, window size) of the cross product has a row
FullCoverage == input.ok /\ \A t \in Groups, w \in Windows : RowsOf(t, w) # {}

\* some (threshold, window size) of the cross product has no row
HasMissing == input.ok /\ \E t \in Groups, w \in Windows : RowsOf(t, w) = {}

\* two rows share their (threshold, window size)
HasDuplicate == \E t \in Groups, w \in Windows : Cardinality(RowsOf(t, w)) > 1

\* two rows with different raw thresholds share their rounded threshold and
\* their window size
HasMerged ==
    \E j, k \in DOMAIN Rows :
        /\ Rows[j].threshold # Rows[k].threshold
        /\ GroupOf(j) = GroupOf(k)
        /\ WindowOf(j) = WindowOf(k)

(* What was drawn *)

Points == SelectSeq(artists, LAMBDA a : a.kind = "point")

Texts == SelectSeq(artists, LAMBDA a : a.kind = "text")

\* the row of the file an artist's x coordinate comes from
RowOf(a) == CHOOSE k \in DOMAIN Rows : IfpRate(k) = a.x

\* the position, from 0, of an artist's threshold among the ascending
\* distinct thresholds
SeriesOf(a) == Cardinality({g \in Groups : g < GroupOf(RowOf(a))})

PlotCompleted == pc \in {"style", "mkdir", "save", "done"}

StyleCompleted == pc \in {"mkdir", "save", "done"}

-----------------------------------------------------------------------------
(* The claims *)

\* C1: on a table with full coverage the plot stage never fails, and once it
\* is over the number of point markers is (distinct thresholds) x (distinct
\* window sizes), every marker being followed by exactly one annotation, at
\* the marker's coordinates and with the text of its row's window size.
C1_MarkerCount ==
    FullCoverage =>
        /\ pc # "failed"
        /\ PlotCompleted =>
            /\ Len(Points) = Cardinality(Groups) * Cardinality(Windows)
            /\ Len(Texts) = Len(Points)
            /\ Len(artists) = 2 * Len(Points)
            /\ \A k \in 1..Len(Points) :
                /\ artists[2 * k - 1].kind = "point"
                /\ artists[2 * k].kind = "text"
                /\ artists[2 * k].x = artists[2 * k - 1].x
                /\ artists[2 * k].y = artists[2 * k - 1].y
                /\ artists[2 * k].text = IntStr(WindowOf(RowOf(artists[2 * k])))

C1_Witness ==
    /\ FullCoverage
    /\ PlotCompleted
    /\ Cardinality(Groups) >= 2
    /\ Cardinality(Windows) >= 2

\* C2: every point and annotation drawn for the threshold at position N of the
\* ascending distinct thresholds has color index N mod (palette size), every
\* point has marker index N mod 6, and the legend entry of that threshold has
\* the same color and the same marker.
C2_StableBinding ==
    LET series == <<>> \o [k \in 1..Len(artists) |-> SeriesOf(artists[k])]
        sorted == SortSet(Groups)
    IN  /\ \A k \in 1..Len(artists) :
            /\ artists[k].color = series[k] % PaletteSize
            /\ artists[k].kind = "point" =>
                artists[k].marker = markers_[(series[k] % 6) + 1]
        /\ StyleCompleted =>
            /\ Len(legend) = Cardinality(Groups)
            /\ \A n \in 1..Len(legend) :
                /\ legend[n].label = "Threshold " \o FloatStr(sorted[n])
                /\ legend[n].color = (n - 1) % PaletteSize
                /\ legend[n].marker = markers_[((n - 1) % 6) + 1]
                /\ \A k \in 1..Len(artists) :
                    (artists[k].kind = "point" /\ series[k] = n - 1) =>
                        /\ artists[k].color = legend[n].color
                        /\ artists[k].marker = legend[n].marker

C2_Witness ==
    /\ pc = "done"
    /\ Len(legend) > PaletteSize
    /\ \E k \in 1..Len(artists) : SeriesOf(artists[k]) >= PaletteSize

C3_Stuck ==
    HasMissing =>
        /\ pc \in {"load", "index", "plot", "failed"}
        /\ pc = "plot" => i < Len(thresholds)
        /\ pc = "failed" => error = "IndexError"
        /\ pdf = 0
        /\ legend = <<>>

\* C3: when some (threshold, window size) of the cross product has no row, the
\* script never leaves the plot stage except by an IndexError: the loop never
\* runs to its end, the legend is never built, the directory is never created
\* and no file is ever written.
C3_MissingFails ==
    /\ []C3_Stuck
    /\ [][HasMissing => UNCHANGED <<plotsDir, pdf>>]_vars

C3_Witness ==
    /\ HasMissing
    /\ pc = "failed"
    /\ error = "IndexError"
    /\ ~plotsDir
    /\ artists # <<>>

\* C4: once the legend is built it has one entry per distinct rounded
\* threshold, in ascending order of threshold, labeled "Threshold <value>";
\* for thresholds {0.5, 0.9} and window sizes {10, 100} in four rows the
\* finished run has the entries "Threshold 0.5" and "Threshold 0.9" and has
\* written the file.
C4_Legend ==
    /\ StyleCompleted =>
        /\ Len(legend) = Cardinality(Groups)
        /\ \A n \in 1..Len(legend) :
            \E g \in Groups :
                /\ legend[n].label = "Threshold " \o FloatStr(g)
                /\ Cardinality({h \in Groups : h < g}) = n - 1
    /\ ( /\ pc = "done"
         /\ Groups = {50, 90}
         /\ Windows = {10, 100}
         /\ Len(Rows) = 4
         /\ FullCoverage ) =>
        /\ Column(legend, "label") = <<"Threshold 0.5", "Threshold 0.9">>
        /\ pdf = run

C4_Witness ==
    /\ pc = "done"
    /\ Groups = {50, 90}
    /\ Windows = {10, 100}
    /\ Len(Rows) = 4
    /\ FullCoverage
    /\ Len(legend) = 2

C6_Runs ==
    FullCoverage =>
        /\ pc # "failed"
        /\ error = "none"
        /\ pc \in {"save", "done"} => plotsDir
        /\ pc = "done" => pdf = run
        /\ (run > 1 /\ pc # "done") => (plotsDir /\ pdf = run - 1)

\* C6: on a valid input no run fails, whether ./plots was there before it or
\* not: the directory step always leaves the directory present and goes on to
\* the save step, a later run finds the directory and the file of the run
\* before it, and every finished run has written the file itself.
C6_MkdirIdempotent ==
    /\ []C6_Runs
    /\ [][(FullCoverage /\ pc = "mkdir") => (plotsDir' /\ pc' = "save")]_vars
    /\ [][(FullCoverage /\ pc = "save") => (pdf' = run /\ pc' = "done")]_vars

C6_Witness ==
    /\ FullCoverage
    /\ run = 2
    /\ pc = "done"
    /\ plotsDir
    /\ pdf = 2

\* C7: the thresholds of the loaded table are fixed points of the rounding:
\* rounding the table again changes no row, hence neither the distinct
\* thresholds nor the rows of any threshold group.
C7_RoundingIdempotent ==
    dataframe # <<>> =>
        /\ \A k \in DOMAIN dataframe :
            Round1(dataframe[k].threshold) = dataframe[k].threshold
        /\ LoadFrame(dataframe) = dataframe
        /\ IndexValues(Column(LoadFrame(dataframe), "threshold"))
             = IndexValues(Column(dataframe, "threshold"))
        /\ \A t \in Unique(Column(dataframe, "threshold")) :
            Line(LoadFrame(dataframe), t) = Line(dataframe, t)

C7_Witness ==
    /\ pc = "plot"
    /\ \E k \in DOMAIN dataframe : dataframe[k].threshold < Rows[k].threshold
    /\ \E k \in DOMAIN dataframe : dataframe[k].threshold > Rows[k].threshold
    /\ \E k \in DOMAIN dataframe : dataframe[k].threshold = Rows[k].threshold

\* what a run has printed, by the stage it is in
C8_Narration ==
    /\ pc = "load" => stdout = <<>>
    /\ pc = "index" => stdout = <<ReadingMsg, "Done!">>
    /\ pc = "plot" => stdout = <<ReadingMsg, "Done!", CreatingMsg>>
    /\ pc \in {"style", "mkdir", "save"} =>
        stdout = <<ReadingMsg, "Done!", CreatingMsg, "Done!">>
    /\ pc = "done" =>
        stdout = <<ReadingMsg, "Done!", CreatingMsg, "Done!", SavingMsg, "Done!",
                   "This took">>
    /\ pc = "failed" =>
        \/ error = "ValueError" /\ stdout = <<ReadingMsg>>
        \/ error = "IndexError" /\ stdout = <<ReadingMsg, "Done!", CreatingMsg>>
    /\ pc # "failed" => error = "none"
    /\ pdf = run =>
        /\ pc = "done"
        /\ input.ok
        /\ dataframe # <<>>
        /\ i = Len(thresholds)
        /\ Len(legend) = Len(thresholds)
        /\ legend # <<>>

\* the stages follow one another in the one order; a failure is left only by
\* starting the script again
C8_Order ==
    pc' # pc =>
        \/ <<pc, pc'>> \in {<<"load", "index">>, <<"index", "plot">>,
                            <<"plot", "style">>, <<"style", "mkdir">>,
                            <<"mkdir", "save">>, <<"save", "done">>}
        \/ pc \in {"load", "plot"} /\ pc' = "failed"
        \/ pc \in {"done", "failed"} /\ pc' = "load" /\ run' = run + 1

\* C8: the stages run in the order load, index, plot, style, save, each one
\* starting from the completed one before it; after a failure nothing of the
\* run changes any more; a stage's "Done!" is printed only when the stage has
\* succeeded; the file is written only by a run whose load, index, plot and
\* style stages have all succeeded.
C8_Linear ==
    /\ []C8_Narration
    /\ [][C8_Order]_vars
    /\ [][pc = "failed" => (pc' = "load" /\ run' = run + 1)]_vars

C8_Witness ==
    /\ pc = "failed"
    /\ error = "IndexError"
    /\ artists # <<>>
    /\ run = 2
    /\ pdf = 0

\* C9 as stated: the color index of series i is i mod 6, like its marker
\* index, so that series i and i + 6 have the same color and the same marker.
C9_ColorPeriod6 ==
    LET series == <<>> \o [k \in 1..Len(Points) |-> SeriesOf(Points[k])]
    IN  \A k, m \in 1..Len(Points) :
            LET a == Points[k]
                b == Points[m]
            IN  /\ a.color = series[k] % 6
                /\ a.marker = markers_[(series[k] % 6) + 1]
                /\ series[m] = series[k] + 6 =>
                    (b.color = a.color /\ b.marker = a.marker)

\* C9 amended: the color index of series i is i mod 10 (the palette size) and
\* its marker index is i mod 6; series i and i + 6 have the same marker but
\* different colors, series i and i + 10 have the same color, and the pair
\* (color, marker) repeats with period 30.
C9_ColorPeriod10 ==
    LET series == <<>> \o [k \in 1..Len(Points) |-> SeriesOf(Points[k])]
    IN  \A k, m \in 1..Len(Points) :
            LET a == Points[k]
                b == Points[m]
            IN  /\ a.color = series[k] % 10
                /\ a.marker = markers_[(series[k] % 6) + 1]
                /\ series[m] = series[k] + 6 =>
                    (b.marker = a.marker /\ b.color # a.color)
                /\ series[m] = series[k] + 10 => b.color = a.color
                /\ (b.color = a.color /\ b.marker = a.marker) =>
                    (series[m] - series[k]) % 30 = 0
                /\ series[m] = series[k] + 30 =>
                    (b.color = a.color /\ b.marker = a.marker)

C9_Witness ==
    /\ PlotCompleted
    /\ \E k, m \in 1..Len(Points) :
        /\ SeriesOf(Points[m]) = SeriesOf(Points[k]) + 30
        /\ Points[m].color = Points[k].color
        /\ Points[m].marker = Points[k].marker

====
